---- MODULE Spec2Model ----
(***************************************************************************)
(* Verification model of the gender-identification recipes:                *)
(*   recipes/LibriSpeech/GenderID/gender_librispeech_prepare.py            *)
(*       the manifest builder (prepare_mini_librispeech, create_json, skip)*)
(*   recipes/AISHELL-1/GenderID/train.py                                   *)
(*       the audio pipeline, the label encoder set-up, the Brain's         *)
(*       forward/objective computation and the checkpoint bookkeeping.     *)
(*                                                                         *)
(* Text (a Python str) is a sequence of one-character strings, so that     *)
(* strip, split and indexing are computed as Python computes them.         *)
(* A Python dict is a set of <<key, value>> pairs with unique keys.        *)
(***************************************************************************)
EXTENDS Integers, Sequences, FiniteSets, TLC

VARIABLES
    \* ---- manifest builder (gender_librispeech_prepare.py)
    speakers_txt,   \* the lines of LibriSpeech/SPEAKERS.TXT, as readlines() gives them
    wav_lists,      \* split -> the .flac files get_all_files finds under its folder
    files,          \* output path -> [exists, content] of the manifest file
    gender_dict,    \* the speaker -> gender table of the last call that parsed one
    prep_result,    \* how the last call of prepare_mini_librispeech ended
    prep_reads,     \* what the last call read (metadata, folder listings, audio)
    prep_written,   \* the output paths the last call wrote
    \* ---- audio pipeline (train.py, dataio_prep.audio_pipeline)
    hparams,        \* sample_rate, sentence_len (in halves of a second), random_chunk
    a_pc,           \* position inside audio_pipeline
    a_dataset,      \* the dataset ("train", "valid", "test") the item belongs to
    wav_len,        \* number of samples read_audio returned
    audio_tensor,   \* the (possibly repeated) signal
    a_start,        \* start offset of the selected window
    a_stop,         \* stop offset of the selected window
    sig,            \* the value audio_pipeline returns
    \* ---- label encoder (train.py, dataio_prep)
    enc_file,       \* save_folder/label_encoder.txt: [exists, lines]
    lab2ind,        \* the encoder's label -> index mapping in the current run
    train_labels,   \* gender_id of the training manifest's items, in order
    \* ---- Brain (train.py, SpkIdBrain)
    modules,        \* names of the modules the hyperparameter file configures
    b_pc,           \* position inside fit_batch / evaluate_batch
    b_stage,        \* sb.Stage of the current batch
    batch,          \* the PaddedBatch: sequence of [id, lens, spkid]
    predictions,    \* rows of the tensor compute_forward returns
    feat_lens,      \* lens returned by prepare_features
    obj_spkid,      \* labels handed to the loss
    obj_lens,       \* lengths handed to the loss
    \* ---- checkpoints (train.py, on_stage_end and __main__)
    c_pc,           \* position of the run: fit (train/valid stages), then evaluate
    epoch,          \* epoch_counter.current
    train_loss,     \* self.train_loss
    ckpts,          \* the checkpoints kept on disk
    loaded          \* what evaluate recovered before the test stage

prep_vars == <<speakers_txt, wav_lists, files, gender_dict, prep_result,
               prep_reads, prep_written>>
audio_vars == <<hparams, a_pc, a_dataset, wav_len, audio_tensor, a_start, a_stop, sig>>
enc_vars == <<enc_file, lab2ind, train_labels>>
brain_vars == <<modules, b_pc, b_stage, batch, predictions, feat_lens,
                obj_spkid, obj_lens>>
ckpt_vars == <<c_pc, epoch, train_loss, ckpts, loaded>>
vars == <<prep_vars, audio_vars, enc_vars, brain_vars, ckpt_vars>>

(***************************************************************************)
(* Bounds of the model                                                     *)
(***************************************************************************)
MaxLines == 2       \* lines in SPEAKERS.TXT
MaxWavs == 2        \* audio files per split folder

(***************************************************************************)
(* Python built-ins used by the recipes                                    *)
(***************************************************************************)
Whitespace == {" ", "\n"}
Digits == {"0", "1", "2", "3", "4", "5", "6", "7", "8", "9"}

\* str.isdigit() of a one-character string
isdigit(c) == c \in Digits

RECURSIVE lstrip(_)
lstrip(s) == IF s # <<>> /\ Head(s) \in Whitespace THEN lstrip(Tail(s)) ELSE s

RECURSIVE rstrip(_)
rstrip(s) ==
    IF s # <<>> /\ s[Len(s)] \in Whitespace
    THEN rstrip(SubSeq(s, 1, Len(s) - 1))
    ELSE s

\* str.strip()
strip(s) == rstrip(lstrip(s))

\* str.split(sep): the fields between the occurrences of sep
RECURSIVE split(_, _)
split(s, sep) ==
    IF \E i \in 1..Len(s) : s[i] = sep
    THEN LET i == CHOOSE k \in 1..Len(s) :
                      s[k] = sep /\ \A j \in 1..(k - 1) : s[j] # sep
         IN  <<SubSeq(s, 1, i - 1)>> \o split(SubSeq(s, i + 1, Len(s)), sep)
    ELSE <<s>>

\* dict: keys, lookup (defined for a key of the dict only), assignment d[k] = v
Keys(d) == {p[1] : p \in d}
Get(d, k) == (CHOOSE p \in d : p[1] = k)[2]
Put(d, k, v) == {p \in d : p[1] # k} \cup {<<k, v>>}

\* path_parts[-n:]
LastN(s, n) == IF Len(s) <= n THEN s ELSE SubSeq(s, Len(s) - n + 1, Len(s))

(***************************************************************************)
(* Manifest builder                                                        *)
(***************************************************************************)
SAMPLERATE == 16000

Splits == {"train", "valid", "test"}
save_json_train == "train"
save_json_valid == "valid"
save_json_test == "test"

\* skip with its test inverted: true when no file exists
skip_inverted(filenames, fs) == \A i \in 1..Len(filenames) : ~fs[filenames[i]].exists

\* skip(*filenames): every file exists
skip(filenames, fs) == \A i \in 1..Len(filenames) : fs[filenames[i]].exists

\* The loop over SPEAKERS.TXT. line[0] of an empty line and tt[1] of a line
\* without '|' raise IndexError.
RECURSIVE parse_speakers(_, _)
parse_speakers(lines, gd) ==
    IF lines = <<>>
    THEN [raised |-> "none", gender_dict |-> gd]
    ELSE LET line == strip(Head(lines))
         IN  IF line = <<>>
             THEN [raised |-> "IndexError", gender_dict |-> gd]
             ELSE IF isdigit(line[1])
                  THEN LET tt == split(line, "|")
                       IN  IF Len(tt) < 2
                           THEN [raised |-> "IndexError", gender_dict |-> gd]
                           ELSE parse_speakers(Tail(lines),
                                    Put(gd, strip(tt[1]), strip(tt[2])))
                  ELSE parse_speakers(Tail(lines), gd)

\* uttid, _ = os.path.splitext(path_parts[-1])
uttid_of(wav_file) == wav_file.path_parts[Len(wav_file.path_parts)]

\* spk_id = uttid.split("-")[0]
spk_id_of(uttid) == split(uttid, "-")[1]

\* the entry with a default gender in place of the table's
json_entry_default_gender(wav_file, gd) ==
    [wav |-> <<"{data_root}">> \o LastN(wav_file.path_parts, 5),
     duration |-> [samples |-> wav_file.samples, rate |-> SAMPLERATE],
     spk_id |-> spk_id_of(uttid_of(wav_file)),
     gender_id |-> <<"M">>]

\* The entry create_json builds for one audio file.
json_entry(wav_file, gd) ==
    [wav |-> <<"{data_root}">> \o LastN(wav_file.path_parts, 5),
     duration |-> [samples |-> wav_file.samples, rate |-> SAMPLERATE],
     spk_id |-> spk_id_of(uttid_of(wav_file)),
     gender_id |-> Get(gd, spk_id_of(uttid_of(wav_file)))]

\* The loop of create_json: gender_dict[spk_id] of a missing speaker raises
\* KeyError; `read` lists the audio files read so far.
RECURSIVE build_json_dict(_, _, _, _)
build_json_dict(wav_list, gd, json_dict, read) ==
    IF wav_list = <<>>
    THEN [raised |-> "none", json_dict |-> json_dict, read |-> read]
    ELSE LET wav_file == Head(wav_list)
             uttid == uttid_of(wav_file)
         IN  IF spk_id_of(uttid) \notin Keys(gd)
             THEN [raised |-> "KeyError", json_dict |-> json_dict,
                   read |-> read \cup {uttid}]
             ELSE build_json_dict(Tail(wav_list), gd,
                      Put(json_dict, uttid, json_entry(wav_file, gd)),
                      read \cup {uttid})

\* create_json opening the output file before the loop: a failing call leaves
\* an empty file behind
create_json_open_first(wav_list, json_file, gd, fs) ==
    LET r == build_json_dict(wav_list, gd, {}, {})
    IN  IF r.raised # "none"
        THEN [raised |-> r.raised,
              fs |-> [fs EXCEPT ![json_file] = [exists |-> TRUE, content |-> {}]],
              read |-> r.read, written |-> {json_file}]
        ELSE [raised |-> "none",
              fs |-> [fs EXCEPT ![json_file] = [exists |-> TRUE, content |-> r.json_dict]],
              read |-> r.read, written |-> {json_file}]

\* create_json(wav_list, json_file, gender_dict) on the file system fs: the file
\* is opened for writing only after the loop has ended.
create_json(wav_list, json_file, gd, fs) ==
    LET r == build_json_dict(wav_list, gd, {}, {})
    IN  IF r.raised # "none"
        THEN [raised |-> r.raised, fs |-> fs, read |-> r.read, written |-> {}]
        ELSE [raised |-> "none",
              fs |-> [fs EXCEPT ![json_file] = [exists |-> TRUE, content |-> r.json_dict]],
              read |-> r.read, written |-> {json_file}]

\* The three create_json calls of prepare_mini_librispeech, in order; the first
\* exception ends the call.
create_all(gd, lists, fs) ==
    LET c1 == create_json(lists["train"], save_json_train, gd, fs)
        c2 == create_json(lists["valid"], save_json_valid, gd, c1.fs)
        c3 == create_json(lists["test"], save_json_test, gd, c2.fs)
    IN  IF c1.raised # "none"
        THEN [raised |-> c1.raised, at |-> "train", fs |-> c1.fs,
              read |-> c1.read, written |-> c1.written]
        ELSE IF c2.raised # "none"
        THEN [raised |-> c2.raised, at |-> "valid", fs |-> c2.fs,
              read |-> c1.read \cup c2.read, written |-> c1.written \cup c2.written]
        ELSE [raised |-> c3.raised, at |-> IF c3.raised = "none" THEN "none" ELSE "test",
              fs |-> c3.fs, read |-> c1.read \cup c2.read \cup c3.read,
              written |-> c1.written \cup c2.written \cup c3.written]

\* what a call has read: SPEAKERS.TXT, the listings of the split folders
\* (get_all_files), and the audio files passed to read_audio
NoReads == [metadata |-> FALSE, folders |-> FALSE, audio |-> {}]

\* prepare_mini_librispeech when skip(...) is true: log and return.
prepare_skip ==
    /\ skip(<<save_json_train, save_json_valid, save_json_test>>, files)
    /\ prep_result' = [outcome |-> "skipped", raised |-> "none", at |-> "none"]
    /\ prep_reads' = NoReads
    /\ prep_written' = {}
    /\ UNCHANGED <<speakers_txt, wav_lists, files, gender_dict>>
    /\ UNCHANGED <<audio_vars, enc_vars, brain_vars, ckpt_vars>>

\* prepare_mini_librispeech when SPEAKERS.TXT cannot be parsed.
prepare_parse_error ==
    /\ ~skip(<<save_json_train, save_json_valid, save_json_test>>, files)
    /\ LET p == parse_speakers(speakers_txt, {})
       IN  /\ p.raised # "none"
           /\ prep_result' = [outcome |-> "raised", raised |-> p.raised, at |-> "SPEAKERS.TXT"]
           /\ gender_dict' = p.gender_dict
    /\ prep_reads' = [metadata |-> TRUE, folders |-> FALSE, audio |-> {}]
    /\ prep_written' = {}
    /\ UNCHANGED <<speakers_txt, wav_lists, files>>
    /\ UNCHANGED <<audio_vars, enc_vars, brain_vars, ckpt_vars>>

\* prepare_mini_librispeech past the metadata: list the folders, build the manifests.
prepare_create ==
    /\ ~skip(<<save_json_train, save_json_valid, save_json_test>>, files)
    /\ LET p == parse_speakers(speakers_txt, {})
           c == create_all(p.gender_dict, wav_lists, files)
       IN  /\ p.raised = "none"
           /\ gender_dict' = p.gender_dict
           /\ files' = c.fs
           /\ prep_result' = [outcome |-> IF c.raised = "none" THEN "created" ELSE "raised",
                              raised |-> c.raised, at |-> c.at]
           /\ prep_reads' = [metadata |-> TRUE, folders |-> TRUE, audio |-> c.read]
           /\ prep_written' = c.written
    /\ UNCHANGED <<speakers_txt, wav_lists>>
    /\ UNCHANGED <<audio_vars, enc_vars, brain_vars, ckpt_vars>>

prepare_mini_librispeech == prepare_skip \/ prepare_parse_error \/ prepare_create

\* ---- inputs of the manifest builder
Text19F == <<"1", "9", "|", "F", "\n">>
Text26M == <<" ", "2", "6", " ", "|", " ", "M", " ", "|", "x", "\n">>
TextComment == <<";", "i", "d", "|", "s", "e", "x", "\n">>
TextBlank == <<"\n">>
TextNoPipe == <<"7", "\n">>
LineSet == {Text19F, Text26M, TextComment, TextBlank, TextNoPipe}

SeqsUpTo(S, n) == UNION {[1..k -> S] : k \in 0..n}

Utt(chars, folder, spk, n) ==
    [path_parts |-> <<"data", "LibriSpeech", folder, spk, "1", chars>>, samples |-> n]

\* the audio files a split folder may hold
FolderFiles(s) ==
    CASE s = "train" -> {Utt(<<"1", "9", "-", "1">>, "train", "19", 32000),
                         Utt(<<"2", "6", "-", "0">>, "train", "26", 16000)}
      [] s = "valid" -> {Utt(<<"2", "6">>, "val", "26", 16000),
                         Utt(<<"7", "-", "0">>, "val", "7", 8000)}
      [] s = "test" -> {Utt(<<"1", "9", "-", "1", "-", "2">>, "test", "19", 8000)}

Injective(q) == \A i, j \in 1..Len(q) : q[i] = q[j] => i = j
WavLists(s) == {q \in SeqsUpTo(FolderFiles(s), MaxWavs) : Injective(q)}

\* a manifest left by an earlier program or by hand: its contents are arbitrary
StaleContent ==
    {<<<<"9", "-", "9">>,
       [wav |-> <<"{data_root}", "old">>,
        duration |-> [samples |-> 1, rate |-> SAMPLERATE],
        spk_id |-> <<"9">>, gender_id |-> <<"X">>]>>}
NoFile == [exists |-> FALSE, content |-> {}]
StaleFile == [exists |-> TRUE, content |-> StaleContent]

PrepIdle ==
    /\ speakers_txt = <<>>
    /\ wav_lists = [s \in Splits |-> <<>>]
    /\ files = [s \in Splits |-> NoFile]
    /\ gender_dict = {}
    /\ prep_result = [outcome |-> "none", raised |-> "none", at |-> "none"]
    /\ prep_reads = NoReads
    /\ prep_written = {}

PrepInit ==
    /\ speakers_txt \in SeqsUpTo(LineSet, MaxLines)
    /\ \E tr \in WavLists("train"), va \in WavLists("valid"), te \in WavLists("test") :
          wav_lists = [train |-> tr, valid |-> va, test |-> te]
    /\ files \in [Splits -> {NoFile, StaleFile}]
    /\ gender_dict = {}
    /\ prep_result = [outcome |-> "none", raised |-> "none", at |-> "none"]
    /\ prep_reads = NoReads
    /\ prep_written = {}

(***************************************************************************)
(* Audio pipeline (dataio_prep.audio_pipeline)                             *)
(***************************************************************************)
MaxRate == 2        \* hparams["sample_rate"]
MaxSentX2 == 4      \* hparams["sentence_len"], in halves of a second
MaxWav == 4         \* samples in an audio file

Datasets == {"train", "valid", "test"}

\* snt_len_sample = int(hparams["sample_rate"] * hparams["sentence_len"])
snt_len_sample(hp) == (hp.sample_rate * hp.sentence_len_x2) \div 2

\* bool(sb.Stage.TRAIN): a member of an Enum is true
Stage_TRAIN_is_true == TRUE

\* the test `sb.Stage.TRAIN and hparams["random_chunk"]`; the pipeline is not
\* told which dataset the item comes from
takes_random_chunk(dataset, hp) == Stage_TRAIN_is_true /\ hp.random_chunk

\* the loop test with < for <=
loop_continues_strict(n, target) == n < target

\* the test of `while (len(audio_tensor) <= snt_len_sample)`
loop_continues(n, target) == n <= target

\* audio_tensor[start:stop] for 0 <= start, 0 <= stop
slice(s, start, stop) ==
    LET hi == IF stop < Len(s) THEN stop ELSE Len(s)
    IN  IF start >= hi THEN <<>> ELSE SubSeq(s, start + 1, hi)

\* audio_tensor = sb.dataio.dataio.read_audio(wav)
audio_pipeline_read ==
    /\ a_pc = "idle"
    /\ \E d \in Datasets, n \in 0..MaxWav :
          /\ a_dataset' = d
          /\ wav_len' = n
          /\ audio_tensor' = [i \in 1..n |-> i]
    /\ a_pc' = "while"
    /\ a_start' = 0
    /\ a_stop' = 0
    /\ sig' = <<>>
    /\ UNCHANGED hparams
    /\ UNCHANGED <<prep_vars, enc_vars, brain_vars, ckpt_vars>>

\* the loop test
audio_pipeline_while ==
    /\ a_pc = "while"
    /\ a_pc' = IF loop_continues(Len(audio_tensor), snt_len_sample(hparams))
               THEN "repeat" ELSE "select"
    /\ UNCHANGED <<hparams, a_dataset, wav_len, audio_tensor, a_start, a_stop, sig>>
    /\ UNCHANGED <<prep_vars, enc_vars, brain_vars, ckpt_vars>>

\* the loop body: audio_tensor = audio_tensor.repeat(2)
audio_pipeline_repeat ==
    /\ a_pc = "repeat"
    /\ audio_tensor' = audio_tensor \o audio_tensor
    /\ a_pc' = "while"
    /\ UNCHANGED <<hparams, a_dataset, wav_len, a_start, a_stop, sig>>
    /\ UNCHANGED <<prep_vars, enc_vars, brain_vars, ckpt_vars>>

\* random window: random.randint(0, hi) raises ValueError when hi < 0
audio_pipeline_random_chunk ==
    /\ a_pc = "select"
    /\ takes_random_chunk(a_dataset, hparams)
    /\ LET hi == Len(audio_tensor) - snt_len_sample(hparams) - 1
       IN  IF hi < 0
           THEN /\ a_pc' = "ValueError"
                /\ UNCHANGED <<a_start, a_stop, sig>>
           ELSE \E start \in 0..hi :
                   /\ a_start' = start
                   /\ a_stop' = start + snt_len_sample(hparams)
                   /\ sig' = slice(audio_tensor, start, start + snt_len_sample(hparams))
                   /\ a_pc' = "done"
    /\ UNCHANGED <<hparams, a_dataset, wav_len, audio_tensor>>
    /\ UNCHANGED <<prep_vars, enc_vars, brain_vars, ckpt_vars>>

\* whole signal: start = 0, stop = len(audio_tensor)
audio_pipeline_whole ==
    /\ a_pc = "select"
    /\ ~takes_random_chunk(a_dataset, hparams)
    /\ a_start' = 0
    /\ a_stop' = Len(audio_tensor)
    /\ sig' = slice(audio_tensor, 0, Len(audio_tensor))
    /\ a_pc' = "done"
    /\ UNCHANGED <<hparams, a_dataset, wav_len, audio_tensor>>
    /\ UNCHANGED <<prep_vars, enc_vars, brain_vars, ckpt_vars>>

\* return sig: the data loader asks for the next item
audio_pipeline_return ==
    /\ a_pc = "done"
    /\ a_pc' = "idle"
    /\ UNCHANGED <<hparams, a_dataset, wav_len, audio_tensor, a_start, a_stop, sig>>
    /\ UNCHANGED <<prep_vars, enc_vars, brain_vars, ckpt_vars>>

HParams ==
    [sample_rate : 1..MaxRate, sentence_len_x2 : 0..MaxSentX2, random_chunk : BOOLEAN]

AudioIdle ==
    /\ hparams = [sample_rate |-> 1, sentence_len_x2 |-> 0, random_chunk |-> FALSE]
    /\ a_pc = "idle"
    /\ a_dataset = "train"
    /\ wav_len = 0
    /\ audio_tensor = <<>>
    /\ a_start = 0
    /\ a_stop = 0
    /\ sig = <<>>

AudioInit ==
    /\ hparams \in HParams
    /\ a_pc = "idle"
    /\ a_dataset = "train"
    /\ wav_len = 0
    /\ audio_tensor = <<>>
    /\ a_start = 0
    /\ a_stop = 0
    /\ sig = <<>>

(***************************************************************************)
(* Label encoder (dataio_prep, lines 315-323). CategoricalEncoder is the   *)
(* toolkit's: update_from_iterable, save, load and load_or_create follow   *)
(* the specification's description of it.                                  *)
(***************************************************************************)
MaxLabels == 4      \* items of the training manifest

Labels == {"F", "M"}

\* each label not seen before gets the next free index, starting at 0
RECURSIVE update_from_iterable(_, _)
update_from_iterable(m, labels) ==
    IF labels = <<>>
    THEN m
    ELSE update_from_iterable(
             IF Head(labels) \in Keys(m) THEN m ELSE Put(m, Head(labels), Cardinality(m)),
             Tail(labels))

\* save: one text line "label => index" per label, in index order
encoder_save(m) ==
    [i \in 1..Cardinality(m) |->
        LET p == CHOOSE q \in m : q[2] = i - 1 IN <<p[1], "=>", p[2]>>]

\* load: parse each line back into a label and its index
RECURSIVE encoder_load(_)
encoder_load(lines) ==
    IF lines = <<>>
    THEN {}
    ELSE Put(encoder_load(Tail(lines)), Head(lines)[1], Head(lines)[3])

\* load_or_create(path, from_didatasets, output_key): load the file when it
\* exists; otherwise derive the mapping from the datasets and save it
load_or_create(file, labels) ==
    IF file.exists
    THEN [lab2ind |-> encoder_load(file.lines), file |-> file]
    ELSE LET m == update_from_iterable({}, labels)
         IN  [lab2ind |-> m, file |-> [exists |-> TRUE, lines |-> encoder_save(m)]]

\* dataio_prep deriving and saving the mapping in every run
dataio_prep_rederive ==
    /\ \E labels \in SeqsUpTo(Labels, MaxLabels) :
          LET m == update_from_iterable({}, labels)
          IN  /\ train_labels' = labels
              /\ lab2ind' = m
              /\ enc_file' = [exists |-> TRUE, lines |-> encoder_save(m)]
    /\ UNCHANGED <<prep_vars, audio_vars, brain_vars, ckpt_vars>>

\* lab_enc_file = os.path.join(hparams["save_folder"], "label_encoder.txt")
\* label_encoder.load_or_create(path=lab_enc_file, from_didatasets=[train], ...)
\* one run of dataio_prep on the training manifest of that run
dataio_prep ==
    /\ \E labels \in SeqsUpTo(Labels, MaxLabels) :
          LET r == load_or_create(enc_file, labels)
          IN  /\ train_labels' = labels
              /\ lab2ind' = r.lab2ind
              /\ enc_file' = r.file
    /\ UNCHANGED <<prep_vars, audio_vars, brain_vars, ckpt_vars>>

EncIdle ==
    /\ enc_file = [exists |-> FALSE, lines |-> <<>>]
    /\ lab2ind = {}
    /\ train_labels = <<>>

EncInit == EncIdle

(***************************************************************************)
(* Brain: compute_forward / prepare_features / compute_objectives          *)
(***************************************************************************)
MaxBatch == 2       \* items in a batch

Stages == {"TRAIN", "VALID", "TEST"}
ModuleNames == {"env_corrupt", "augmentation"}

\* batch.sig: one row per item, and the relative lengths
batch_wavs(b) == [i \in 1..Len(b) |-> [item |-> b[i].id, noise |-> FALSE, augment |-> FALSE]]
batch_lens(b) == [i \in 1..Len(b) |-> b[i].lens]
\* batch.gender_id_encoded
batch_spkid(b) == [i \in 1..Len(b) |-> b[i].spkid]

\* self.modules.env_corrupt(wavs, lens): a corrupted copy of every row
env_corrupt(wavs) == [i \in 1..Len(wavs) |-> [wavs[i] EXCEPT !.noise = TRUE]]
\* self.modules.augmentation(wavs, lens): every row augmented
augmentation(wavs) == [i \in 1..Len(wavs) |-> [wavs[i] EXCEPT !.augment = TRUE]]

\* prepare_features(wavs, stage), up to the feature extraction
prepare_features(wavs, lens, stage, mods) ==
    LET corrupt == stage = "TRAIN" /\ "env_corrupt" \in mods
        wavs1 == IF corrupt THEN wavs \o env_corrupt(wavs) ELSE wavs
        lens1 == IF corrupt THEN lens \o lens ELSE lens
        wavs2 == IF stage = "TRAIN" /\ "augmentation" \in mods
                 THEN augmentation(wavs1) ELSE wavs1
    IN  [feats |-> wavs2, lens |-> lens1]

\* the targets duplicated whenever env_corrupt is configured, whatever the stage
objective_targets_any_stage(b, stage, mods) ==
    IF "env_corrupt" \in mods
    THEN [spkid |-> batch_spkid(b) \o batch_spkid(b), lens |-> batch_lens(b) \o batch_lens(b)]
    ELSE [spkid |-> batch_spkid(b), lens |-> batch_lens(b)]

\* compute_objectives: the labels and lengths handed to compute_BCE_cost
objective_targets(b, stage, mods) ==
    IF stage = "TRAIN" /\ "env_corrupt" \in mods
    THEN [spkid |-> batch_spkid(b) \o batch_spkid(b), lens |-> batch_lens(b) \o batch_lens(b)]
    ELSE [spkid |-> batch_spkid(b), lens |-> batch_lens(b)]

Batches ==
    UNION {{q \in [1..n -> [id : 1..MaxBatch, lens : {1}, spkid : {0, 1}]] :
               \A i \in 1..n : q[i].id = i} : n \in 1..MaxBatch}

\* compute_forward(batch, stage): features, embeddings, one prediction per row
compute_forward ==
    /\ b_pc \in {"idle", "objectives"}
    /\ \E b \in Batches, stage \in Stages :
          LET f == prepare_features(batch_wavs(b), batch_lens(b), stage, modules)
          IN  /\ batch' = b
              /\ b_stage' = stage
              /\ predictions' = f.feats
              /\ feat_lens' = f.lens
    /\ b_pc' = "forward"
    /\ UNCHANGED <<modules, obj_spkid, obj_lens>>
    /\ UNCHANGED <<prep_vars, audio_vars, enc_vars, ckpt_vars>>

\* compute_objectives(predictions, batch, stage)
compute_objectives ==
    /\ b_pc = "forward"
    /\ LET t == objective_targets(batch, b_stage, modules)
       IN  /\ obj_spkid' = t.spkid
           /\ obj_lens' = t.lens
    /\ b_pc' = "objectives"
    /\ UNCHANGED <<modules, b_stage, batch, predictions, feat_lens>>
    /\ UNCHANGED <<prep_vars, audio_vars, enc_vars, ckpt_vars>>

BrainIdle ==
    /\ modules = {}
    /\ b_pc = "idle"
    /\ b_stage = "TRAIN"
    /\ batch = <<>>
    /\ predictions = <<>>
    /\ feat_lens = <<>>
    /\ obj_spkid = <<>>
    /\ obj_lens = <<>>

BrainInit ==
    /\ modules \in SUBSET ModuleNames
    /\ b_pc = "idle"
    /\ b_stage = "TRAIN"
    /\ batch = <<>>
    /\ predictions = <<>>
    /\ feat_lens = <<>>
    /\ obj_spkid = <<>>
    /\ obj_lens = <<>>

(***************************************************************************)
(* Checkpoints: on_stage_end and the evaluate call of __main__. The        *)
(* Checkpointer is the toolkit's: save_and_keep_only and find_checkpoint   *)
(* follow the specification (keep the best checkpoint by the named key).   *)
(***************************************************************************)
MaxEpochs == 3      \* epochs of fit
MaxLoss == 2        \* stage losses are 0..MaxLoss

\* meta={"loss": stage_loss, "summary": summary}; the checkpointer stamps the time
save_meta(stage_loss, ep) == {<<"loss", stage_loss>>, <<"summary", 0>>, <<"unixtime", ep>>}
\* min_keys=["loss"] of save_and_keep_only
save_min_key == "loss"
\* num_to_keep=1
num_to_keep == 1
\* min_key="error" of evaluate
evaluate_min_key == "error"

\* the checkpoints of cs that record key, best (minimal) value first; among
\* equals the most recent
best_by_min(cs, key) ==
    LET have == {c \in cs : key \in Keys(c.meta)}
    IN  {c \in have : \A d \in have :
            \/ Get(c.meta, key) < Get(d.meta, key)
            \/ /\ Get(c.meta, key) = Get(d.meta, key)
               /\ Get(c.meta, "unixtime") >= Get(d.meta, "unixtime")}

\* save_and_keep_only(meta, num_to_keep=1, min_keys, name): save, then delete
\* all but the best
save_and_keep_only(cs, meta, name, key) ==
    LET all == {c \in cs : c.name # name} \cup {[name |-> name, meta |-> meta]}
    IN  IF num_to_keep = 1 THEN best_by_min(all, key) ELSE all

\* what evaluate recovers: the best checkpoint recording min_key, if there is one
find_checkpoint(cs, key) ==
    IF best_by_min(cs, key) = {}
    THEN [found |-> FALSE, name |-> 0]
    ELSE [found |-> TRUE, name |-> (CHOOSE c \in best_by_min(cs, key) : TRUE).name]

\* on_stage_end(TRAIN, stage_loss, epoch)
on_stage_end_TRAIN ==
    /\ c_pc = "fit"
    /\ epoch < MaxEpochs
    /\ epoch' = epoch + 1
    /\ \E stage_loss \in 0..MaxLoss : train_loss' = stage_loss
    /\ c_pc' = "valid"
    /\ UNCHANGED <<ckpts, loaded>>
    /\ UNCHANGED <<prep_vars, audio_vars, enc_vars, brain_vars>>

\* on_stage_end(VALID, stage_loss, epoch)
on_stage_end_VALID ==
    /\ c_pc = "valid"
    /\ \E stage_loss \in 0..MaxLoss :
          ckpts' = save_and_keep_only(ckpts, save_meta(stage_loss, epoch), epoch,
                                      save_min_key)
    /\ c_pc' = "fit"
    /\ UNCHANGED <<epoch, train_loss, loaded>>
    /\ UNCHANGED <<prep_vars, audio_vars, enc_vars, brain_vars>>

\* gender_id_brain.evaluate(test_set, min_key="error", ...)
evaluate ==
    /\ c_pc = "fit"
    /\ loaded' = find_checkpoint(ckpts, evaluate_min_key)
    /\ c_pc' = "test"
    /\ UNCHANGED <<epoch, train_loss, ckpts>>
    /\ UNCHANGED <<prep_vars, audio_vars, enc_vars, brain_vars>>

\* on_stage_end(TEST, stage_loss)
on_stage_end_TEST ==
    /\ c_pc = "test"
    /\ c_pc' = "done"
    /\ UNCHANGED <<epoch, train_loss, ckpts, loaded>>
    /\ UNCHANGED <<prep_vars, audio_vars, enc_vars, brain_vars>>

CkptIdle ==
    /\ c_pc = "fit"
    /\ epoch = 0
    /\ train_loss = 0
    /\ ckpts = {}
    /\ loaded = [found |-> FALSE, name |-> 0]

CkptInit == CkptIdle

(***************************************************************************)
(* Specifications, one per script part                                     *)
(***************************************************************************)
\* the manifest builder
Init == PrepInit /\ AudioIdle /\ EncIdle /\ BrainIdle /\ CkptIdle
Next == prepare_skip \/ prepare_parse_error \/ prepare_create
Spec == Init /\ [][Next]_vars

\* the audio pipeline
InitAudio == PrepIdle /\ AudioInit /\ EncIdle /\ BrainIdle /\ CkptIdle
NextAudio ==
    \/ audio_pipeline_read
    \/ audio_pipeline_while
    \/ audio_pipeline_repeat
    \/ audio_pipeline_random_chunk
    \/ audio_pipeline_whole
    \/ audio_pipeline_return
SpecAudio == InitAudio /\ [][NextAudio]_vars
\* the interpreter always takes the next step of the pipeline
SpecAudioFair == SpecAudio /\ WF_vars(NextAudio)

\* the label encoder over repeated runs
InitEncoder == PrepIdle /\ AudioIdle /\ EncInit /\ BrainIdle /\ CkptIdle
NextEncoder == dataio_prep
SpecEncoder == InitEncoder /\ [][NextEncoder]_vars

\* the Brain's batch computation
InitBrain == PrepIdle /\ AudioIdle /\ EncIdle /\ BrainInit /\ CkptIdle
NextBrain == compute_forward \/ compute_objectives
SpecBrain == InitBrain /\ [][NextBrain]_vars

\* fit, then evaluate
InitCheckpoint == PrepIdle /\ AudioIdle /\ EncIdle /\ BrainIdle /\ CkptInit
NextCheckpoint ==
    \/ on_stage_end_TRAIN
    \/ on_stage_end_VALID
    \/ evaluate
    \/ on_stage_end_TEST
SpecCheckpoint == InitCheckpoint /\ [][NextCheckpoint]_vars

(***************************************************************************)
(* Properties of the manifest builder (specification Spec)                 *)
(***************************************************************************)
AllManifestsExist == \A s \in Splits : files[s].exists

\* p is the part of u before its first '-' (all of u when u has no '-')
IsPartBeforeFirstDash(p, u) ==
    /\ \A i \in 1..Len(p) : p[i] # "-"
    /\ Len(p) <= Len(u)
    /\ \A i \in 1..Len(p) : u[i] = p[i]
    /\ Len(u) > Len(p) => u[Len(p) + 1] = "-"

\* C1: a call made when the three manifest files exist changes none of them,
\* whatever they hold, reads neither SPEAKERS.TXT nor the corpus and writes
\* nothing; this holds of every call of a run, so of every repetition.
C1_SkipIsNoOp ==
    [][AllManifestsExist =>
          /\ files' = files
          /\ prep_reads' = NoReads
          /\ prep_written' = {}
          /\ prep_result'.outcome = "skipped"]_vars

\* a call was skipped over manifests that hold old, unrelated contents
C1_Witness ==
    /\ prep_result.outcome = "skipped"
    /\ \A s \in Splits : files[s] = StaleFile
    /\ wav_lists["train"] # <<>>

\* C4: every entry of a manifest written by the last call has as spk_id the
\* part of its utterance id before the first '-', and as gender_id the gender
\* the speaker table holds for that spk_id.
C4_EntriesFollowTable ==
    \A s \in prep_written : \A e \in files[s].content :
        /\ IsPartBeforeFirstDash(e[2].spk_id, e[1])
        /\ \E g \in gender_dict : g[1] = e[2].spk_id /\ g[2] = e[2].gender_id
        /\ \A g \in gender_dict : g[1] = e[2].spk_id => g[2] = e[2].gender_id

\* all three manifests written, with a female and a male speaker and
\* utterance ids with no, one and two dashes
C4_Witness ==
    /\ prep_written = Splits
    /\ Cardinality(files["train"].content) = 2
    /\ \E e \in files["valid"].content : e[1] = <<"2", "6">> /\ e[2].gender_id = <<"M">>
    /\ \E e \in files["test"].content : e[2].spk_id = <<"1", "9">> /\ e[2].gender_id = <<"F">>

\* split s holds an audio file whose speaker the table gd does not list
HasUnknownSpeaker(s, gd) ==
    \E i \in 1..Len(wav_lists[s]) :
        ~\E g \in gd : IsPartBeforeFirstDash(g[1], uttid_of(wav_lists[s][i]))

SplitOrder == <<"train", "valid", "test">>

\* C5: a call that gets to build the manifests raises KeyError at the first
\* split holding a file of a speaker missing from the table, and that split's
\* manifest file is left as it was: not created, not modified, not written.
C5_UnknownSpeakerFailsBeforeWrite ==
    [][prep_reads'.folders =>
          \A k \in 1..3 :
              (/\ HasUnknownSpeaker(SplitOrder[k], gender_dict')
               /\ \A j \in 1..(k - 1) : ~HasUnknownSpeaker(SplitOrder[j], gender_dict'))
              => /\ prep_result'.raised = "KeyError"
                 /\ prep_result'.at = SplitOrder[k]
                 /\ files'[SplitOrder[k]] = files[SplitOrder[k]]
                 /\ SplitOrder[k] \notin prep_written']_vars

\* the call failed at the validation split after writing the training one; the
\* old validation manifest is intact
C5_Witness ==
    /\ prep_result.raised = "KeyError"
    /\ prep_result.at = "valid"
    /\ prep_written = {"train"}
    /\ files["valid"] = StaleFile

\* a line that parses: it starts (after stripping) with a digit and has a '|'
WellFormedLine(line) ==
    /\ strip(line) # <<>>
    /\ isdigit(strip(line)[1])
    /\ \E i \in 1..Len(line) : line[i] = "|"

\* C6: parsing SPEAKERS.TXT raises no error whatever its lines are, and the
\* table holds exactly the entries of the well-formed lines.
C6_MalformedLinesAreSkipped ==
    prep_reads.metadata =>
        /\ prep_result.raised # "IndexError"
        /\ \A i \in 1..Len(speakers_txt) :
              WellFormedLine(speakers_txt[i]) =>
                  strip(split(strip(speakers_txt[i]), "|")[1]) \in Keys(gender_dict)
        /\ \A g \in gender_dict :
              \E i \in 1..Len(speakers_txt) :
                  /\ WellFormedLine(speakers_txt[i])
                  /\ g[1] = strip(split(strip(speakers_txt[i]), "|")[1])
                  /\ g[2] = strip(split(strip(speakers_txt[i]), "|")[2])

\* C11: a call that starts with at least one manifest file absent and ends in
\* KeyError while building a split leaves at least one manifest file absent, so
\* that the next call is not skipped.
C11_FailedRunIsNotSkippedNext ==
    [][(~AllManifestsExist /\ prep_result'.raised = "KeyError")
          => ~(\A s \in Splits : files'[s].exists)]_vars

(***************************************************************************)
(* Properties of the audio pipeline (SpecAudio, SpecAudioFair)             *)
(***************************************************************************)
\* C2: with random_chunk set, random.randint never gets an empty range, and a
\* returned signal has exactly int(sample_rate * sentence_len) samples: the n
\* with n <= sample_rate * sentence_len < n + 1.
C2_RandomChunkHasTargetLength ==
    /\ a_pc # "ValueError"
    /\ (a_pc = "done" /\ hparams.random_chunk) =>
          /\ 2 * Len(sig) <= hparams.sample_rate * hparams.sentence_len_x2
          /\ hparams.sample_rate * hparams.sentence_len_x2 < 2 * Len(sig) + 2
          /\ a_stop - a_start = Len(sig)
          /\ a_stop <= Len(audio_tensor)

\* a waveform exactly as long as the target was windowed at a non-zero offset
C2_Witness ==
    /\ a_pc = "done"
    /\ hparams.random_chunk
    /\ wav_len = Len(sig)
    /\ wav_len >= 2
    /\ a_start > 0

\* C3: the fixed-length random window is taken only for items of the training
\* set with random_chunk set; every other item is returned whole.
C3_WindowOnlyInTraining ==
    a_pc = "done" =>
        IF a_dataset = "train" /\ hparams.random_chunk
        THEN Len(sig) = snt_len_sample(hparams)
        ELSE sig = audio_tensor /\ a_start = 0 /\ a_stop = Len(audio_tensor)

\* C9: the repeat loop always ends, with a signal at least the target long.
C9_RepeatLoopTerminates ==
    (a_pc = "while") ~>
        (a_pc \in {"select", "done"} /\ Len(audio_tensor) >= snt_len_sample(hparams))

(***************************************************************************)
(* Properties of the label encoder (SpecEncoder)                           *)
(***************************************************************************)
\* C7: once label_encoder.txt exists, a run of dataio_prep leaves the file as it
\* is and ends with the mapping of the run before it, whatever the training
\* manifest of the run holds.
C7_ReloadKeepsIndices ==
    [][enc_file.exists =>
          /\ enc_file' = enc_file
          /\ lab2ind' = lab2ind
          /\ lab2ind' = encoder_load(enc_file.lines)]_vars

\* a run loaded a two-label mapping that its own manifest would order otherwise
C7_Witness ==
    /\ enc_file.exists
    /\ lab2ind = {<<"F", 0>>, <<"M", 1>>}
    /\ train_labels # <<>>
    /\ Head(train_labels) = "M"

(***************************************************************************)
(* Properties of the Brain (SpecBrain)                                     *)
(***************************************************************************)
BatchIsDoubled == b_stage = "TRAIN" /\ "env_corrupt" \in modules

\* C8: at the loss, predictions, labels and lengths have the same number of
\* rows, twice the batch exactly when the stage is TRAIN and env_corrupt is
\* configured; row i of the labels is the label of the item row i of the
\* predictions was computed from; outside TRAIN no row is corrupted or augmented.
C8_BatchDimensionsAgree ==
    b_pc = "objectives" =>
        /\ Len(predictions) = Len(obj_spkid)
        /\ Len(predictions) = Len(obj_lens)
        /\ Len(feat_lens) = Len(obj_lens)
        /\ Len(predictions) = IF BatchIsDoubled THEN 2 * Len(batch) ELSE Len(batch)
        /\ \A i \in 1..Len(predictions) :
              /\ predictions[i].item \in 1..Len(batch)
              /\ obj_spkid[i] = batch[predictions[i].item].spkid
              /\ b_stage # "TRAIN" => ~predictions[i].noise /\ ~predictions[i].augment

\* a doubled training batch of two items reached the loss
C8_Witness ==
    /\ b_pc = "objectives"
    /\ BatchIsDoubled
    /\ Len(batch) = 2
    /\ Len(obj_spkid) = 4
    /\ batch[1].spkid # batch[2].spkid

(***************************************************************************)
(* Properties of the checkpoints (SpecCheckpoint)                          *)
(***************************************************************************)
\* C10: the key evaluate selects by is recorded in every saved checkpoint, and
\* the test stage runs on the kept checkpoint of minimal validation loss.
C10_EvaluateLoadsBest ==
    /\ \A c \in ckpts : evaluate_min_key \in Keys(c.meta)
    /\ (c_pc \in {"test", "done"} /\ ckpts # {}) =>
          /\ loaded.found
          /\ \E c \in ckpts :
                /\ c.name = loaded.name
                /\ \A d \in ckpts : Get(c.meta, "loss") <= Get(d.meta, "loss")

====
